---- MODULE Spec2Model ----
(***************************************************************************)
(* Control-flow model of noc/differential_dynamic_programming.py:          *)
(* interior_point_ddp (barrier continuation) -> ddp (Newton loop) ->       *)
(* while_inner_loop (regularised backward pass, forward rollout,           *)
(* acceptance test, regularisation update).                                *)
(*                                                                         *)
(* The optimal control problem (dynamics, constraints, costs) is supplied  *)
(* by the caller; its numerical answers are inputs drawn from small sets:  *)
(*   - a trajectory is abstracted to its initial state, its constraint     *)
(*     status (interior / violating) and its total cost at the             *)
(*     current barrier parameter;                                          *)
(*   - a backward pass is abstracted to the per-stage scalars (Qu, Quu)    *)
(*     after regularisation, from which gains, dV, pos_def and Hu are      *)
(*     computed as in bwd_pass.body.                                       *)
(* Floating point values are exact rationals extended with +inf, -inf and  *)
(* NaN, with the IEEE rules for subtraction, division and comparison.      *)
(***************************************************************************)
EXTENDS Integers, Sequences, FiniteSets, TLC

\* ---------------------------------------------------------------- bounds
\* Iteration budget of the inner loop (the literal 500 of while_inner_cond),
\* scaled down so that the nested loops can be enumerated.
InnerItCap == 1
\* Iteration budget of the Newton loop (the literal 500 of while_cond), scaled.
OuterItCap == 1

\* ------------------------------------------------------ program constants
\* Barrier parameter in units of 1e-7: 0.1, the divisor 5 and the 1e-4 test.
BarrierInit == 1000000
BarrierDiv == 5
BarrierTol == 1000
\* Hamiltonian residual in units of 2.5e-5: the 1e-4 tolerance and the 1.0
\* the Newton loop is seeded with.
HuTol == 4
HuInit == 40000
\* Decimal exponents of the clip bounds 1e-16 and 1e16.
RegMinExp == -16
RegMaxExp == 16

\* ------------------------------------------------- extended real numbers
Fin(n) == [k |-> "fin", v |-> n]
PInf == [k |-> "pinf", v |-> 0]
NInf == [k |-> "ninf", v |-> 0]
NaN == [k |-> "nan", v |-> 0]

IsFinite(a) == a.k = "fin"

\* a - b on extended reals (actual_reduction = new_cost - cost).
ExtSub(a, b) ==
    IF a.k = "nan" \/ b.k = "nan" THEN NaN
    ELSE IF a.k = "fin" /\ b.k = "fin" THEN Fin(a.v - b.v)
    ELSE IF a.k = "fin" THEN (IF b.k = "pinf" THEN NInf ELSE PInf)
    ELSE IF b.k = "fin" THEN a
    ELSE IF a.k = b.k THEN NaN
    ELSE a

\* a < b on extended reals; every comparison with NaN is false.
ExtLess(a, b) ==
    /\ a.k # "nan"
    /\ b.k # "nan"
    /\ \/ a.k = "ninf" /\ b.k # "ninf"
       \/ a.k = "fin" /\ b.k = "pinf"
       \/ a.k = "fin" /\ b.k = "fin" /\ a.v < b.v

\* A ratio n/d with d > 0, or +inf, -inf, NaN (gain_ratio).
Rat(n, d) == [k |-> "fin", n |-> n, d |-> d]
RPInf == [k |-> "pinf", n |-> 0, d |-> 1]
RNInf == [k |-> "ninf", n |-> 0, d |-> 1]
RNaN == [k |-> "nan", n |-> 0, d |-> 1]

Sgn(n) == IF n > 0 THEN 1 ELSE IF n < 0 THEN -1 ELSE 0
Abs(n) == IF n < 0 THEN -n ELSE n

\* a / p where a is an extended real and p a finite number; zs is the sign
\* of the floating point zero when p = 0.
ExtDiv(a, p, zs) ==
    LET sp == IF p = 0 THEN zs ELSE Sgn(p)
        sa == IF a.k = "pinf" THEN 1
              ELSE IF a.k = "ninf" THEN -1
              ELSE Sgn(a.v)
    IN  IF a.k = "nan" THEN RNaN
        ELSE IF a.k = "fin" /\ p # 0 THEN Rat(a.v * Sgn(p), Abs(p))
        ELSE IF a.k = "fin" /\ a.v = 0 THEN RNaN
        ELSE IF sa * sp > 0 THEN RPInf ELSE RNInf

\* gain_ratio > 0
RatPos(g) == g.k = "pinf" \/ (g.k = "fin" /\ g.n > 0)

\* ------------------------------------------------- regularisation scalar
\* reg_param is kept exactly as 2^e2 * 3^e3 * 7^e7 * 10^e10.
RegOne == [e2 |-> 0, e3 |-> 0, e7 |-> 0, e10 |-> 0]
RegMin == [e2 |-> 0, e3 |-> 0, e7 |-> 0, e10 |-> RegMinExp]
RegMax == [e2 |-> 0, e3 |-> 0, e7 |-> 0, e10 |-> RegMaxExp]

\* log10(reg) * 1e5, with log10(2) = 0.30103, log10(3) = 0.47712 and
\* log10(7) = 0.84510.
RegLog(r) == 100000 * r.e10 + 30103 * r.e2 + 47712 * r.e3 + 84510 * r.e7

\* Variant: no clipping.
ClipReg_None(r) == r

\* jnp.clip(rp, 1e-16, 1e16)
ClipReg(r) ==
    IF RegLog(r) < 100000 * RegMinExp THEN RegMin
    ELSE IF RegLog(r) > 100000 * RegMaxExp THEN RegMax
    ELSE r

RECURSIVE ExpOf(_, _)
\* Multiplicity of the prime p in n > 0.
ExpOf(p, n) == IF n % p = 0 THEN 1 + ExpOf(p, n \div p) ELSE 0

\* jnp.maximum(1/3, 1 - (2 g - 1)^3) for a gain ratio g, as exponents of 2,
\* 3 and 7: with g = n/d the cubic is (d^3 - (2n-d)^3) / d^3. The positive
\* gain ratios of the modelled costs and reductions are 1, 1/2, 1/3 and 1/4,
\* whose factors are 1/3, 1, 28/27 and 9/8.
ShrinkFactor(g) ==
    LET d3 == g.d * g.d * g.d
        c3 == (2 * g.n - g.d) * (2 * g.n - g.d) * (2 * g.n - g.d)
        num == d3 - c3
    IN  IF g.k # "fin" \/ 3 * num <= d3
        THEN [e2 |-> 0, e3 |-> -1, e7 |-> 0]
        ELSE [e2 |-> ExpOf(2, num) - ExpOf(2, d3),
              e3 |-> ExpOf(3, num) - ExpOf(3, d3),
              e7 |-> ExpOf(7, num) - ExpOf(7, d3)]

\* rp * factor on acceptance (line 131).
RegShrink(r, g) ==
    LET f == ShrinkFactor(g)
    IN  [e2 |-> r.e2 + f.e2, e3 |-> r.e3 + f.e3, e7 |-> r.e7 + f.e7,
         e10 |-> r.e10]

\* rp * 2^inc on rejection (line 132); inc is the binary exponent of the
\* growth multiplier.
RegGrow(r, inc) == [r EXCEPT !.e2 = @ + inc]

\* ------------------------------------------------------------ trajectory
StatusVals == {"interior", "violating"}
CostVals == {0, 1}
StateVals == {1}

Traj(x0, st, cv) == [x0 |-> x0, st |-> st, cv |-> cv]

\* All trajectories starting at x0; the cost value is kept only for an
\* interior trajectory, whose log-barrier cost is finite.
TrajSet(x0) ==
    {Traj(x0, "interior", c) : c \in CostVals}
      \cup {Traj(x0, "violating", 0)}

\* ocp.total_cost with the log-barrier stage cost: finite inside the
\* constraints, NaN outside (log of a negative number).
total_cost(t) == IF t.st = "interior" THEN Fin(t.cv) ELSE NaN

\* jnp.all(cons <= 0)
check_feasibility(t) == t.st # "violating"

\* rollout(ocp.dynamics, controls, initial_state): the open-loop states of
\* the controls of trajectory t from initial_state, costed afresh at the
\* barrier parameter of the call (cv).
rollout(t, initial_state, cv) ==
    Traj(initial_state, t.st, IF t.st = "interior" THEN cv ELSE 0)

\* ---------------------------------------------------------- backward pass
\* The stages of the modelled horizon (N = 2), in time order.
Stages == {1, 2}
QuVals == {-4, 0, 2}

\* The per-stage scalars (Qu, regularised Quu) a backward pass can meet.
StageQ ==
    {[Qu |-> 0, Quu |-> 1], [Qu |-> 0, Quu |-> -1],
     [Qu |-> 2, Quu |-> 2], [Qu |-> 2, Quu |-> -2],
     [Qu |-> -4, Quu |-> 4], [Qu |-> -4, Quu |-> -4]}

\* compute_derivatives: the bundle of the nominal trajectory, abstracted to
\* the value Qu takes at a stage whose later stages are all stationary
\* (Qu = 0); it is recorded as 0 for the stages where Qu depends on the
\* regularisation.
DerivSet == {q \in [Stages -> QuVals] : q[2] # 0 => q[1] = 0}

\* Qu = cu + fu.T @ Vx with Vx = Qx - Qu @ solve(Quu, Qxu.T): the last stage
\* uses Vx_final, and a stage whose later stages all have Qu = 0 receives
\* Vx = Qx, so in both cases Qu does not depend on the regularisation.
QuConsistent(d, s) ==
    \A k \in Stages :
        (\A j \in Stages : j > k => d[j] = 0) => s[k].Qu = d[k]

RECURSIVE SumOver(_, _)
\* jnp.sum over the stages in S.
SumOver(f, S) ==
    IF S = {} THEN 0
    ELSE LET k == CHOOSE j \in S : TRUE
         IN  f[k] + SumOver(f, S \ {k})

\* jnp.max(jnp.abs(Hu))
MaxAbs(f) == CHOOSE m \in {Abs(f[k]) : k \in Stages} :
                 \A k \in Stages : Abs(f[k]) <= m

\* Variant: jnp.any in place of jnp.all.
any_pos_def(s) == \E k \in Stages : s[k].Quu > 0

\* jnp.all(feasible_bwd_pass) over the pos_def flags of the stages, each
\* jnp.all(eig_vals > 0) of the regularised Quu.
all_pos_def(s) == \A k \in Stages : s[k].Quu > 0

\* bwd_pass on the stage scalars s: k = -Qu/Quu, dV = -Qu^2 / (2 Quu),
\* pos_def = (Quu > 0); pred_reduction sums dV, feasible_bwd_pass is the
\* conjunction of pos_def, Hu collects Qu.
bwd_pass(s) ==
    LET dV == [k \in Stages |-> (0 - s[k].Qu * s[k].Qu) \div (2 * s[k].Quu)]
    IN  [ffgain |-> [k \in Stages |-> (0 - s[k].Qu) \div s[k].Quu],
         pred_reduction |-> SumOver(dV, Stages),
         feasible_bwd_pass |-> all_pos_def(s),
         Hu |-> [k \in Stages |-> s[k].Qu]]

\* Variant: the scan starts at nominal_states[1].
nonlin_rollout_Shift(ffgain, nominal) ==
    {Traj(nominal.x0 + 1, c.st, c.cv) : c \in TrajSet(nominal.x0)}

\* nonlin_rollout: the candidate starts at nominal_states[0]; with k = 0 at
\* every stage u_hat = u + K (x_hat - x) reproduces the nominal trajectory.
nonlin_rollout(ffgain, nominal) ==
    IF \A k \in Stages : ffgain[k] = 0
    THEN {nominal}
    ELSE TrajSet(nominal.x0)

\* Variant: the bundle of an interior trajectory is used for every nominal
\* trajectory.
compute_derivatives_Stale(x) ==
    {[nan |-> FALSE, qu |-> q] : q \in [Stages -> QuVals]}

\* A derivative bundle: NaN throughout when the nominal trajectory is not
\* strictly inside the constraints (the log-barrier has no finite
\* derivatives there), the stage values otherwise.
compute_derivatives(x) ==
    IF x.st = "interior"
    THEN {[nan |-> FALSE, qu |-> q] : q \in DerivSet}
    ELSE {[nan |-> TRUE, qu |-> [k \in Stages |-> 0]]}

\* ------------------------------------------------------------ inner loop
\* jnp.where(check_feasibility(...), ocp.total_cost(...), jnp.inf)
new_cost(cand) ==
    IF check_feasibility(cand) THEN total_cost(cand) ELSE PInf

\* Variant: the sign of the gain ratio is not tested.
succesful_NoGainTest(g, feasible_bwd_pass) == feasible_bwd_pass

\* Variant: logical_or in place of logical_and.
succesful_Or(g, feasible_bwd_pass) == RatPos(g) \/ feasible_bwd_pass

\* jnp.logical_and(gain_ratio > 0, feasible_bwd_pass)
succesful_minimzation(g, feasible_bwd_pass) ==
    RatPos(g) /\ feasible_bwd_pass

\* Lines 129-135: the update of rp, where reg_inc is the growth multiplier
\* the enclosing while_body received (not the inner carry r_inc).
update_rp(ok, r, g, inc) ==
    ClipReg(IF ok THEN RegShrink(r, g) ELSE RegGrow(r, inc))

\* Binary exponent of initial_reg_inc = 2.0 and of the reset value 2.0.
RegIncInit == 1

\* Variant: the multiplier is doubled whatever the outcome.
update_r_inc_NoReset(ok, inc) == inc + 1

\* jnp.where(succesful_minimzation, 2.0, 2 * r_inc)
update_r_inc(ok, inc) == IF ok THEN RegIncInit ELSE inc + 1

\* Variant: the iteration budget is not tested.
inner_exit_NoBudget(ok, counter) == ok

\* while_inner_cond: exit_cond
inner_exit_cond(ok, counter) == ok \/ counter > InnerItCap

\* Variant: the residual is not tested.
outer_exit_NoResidual(hu, its) == its > OuterItCap

\* while_cond of ddp: exit_cond
outer_exit_cond(hu, its) == ExtLess(hu, Fin(HuTol)) \/ its > OuterItCap

\* Variant: every outer iteration starts from the initial pair.
inner_seed_Reset(reg, inc) == [rp |-> RegOne, r_inc |-> RegIncInit]

\* The rp and r_inc of the inner carry while_body builds (line 157).
inner_seed(reg, inc) == [rp |-> reg, r_inc |-> inc]

\* Variant: the residual of the carry starts at 0.0, as the inner one does.
initial_Hu_norm_Zero == Fin(0)

\* jnp.array(1.0), the Hu_norm the while_loop of ddp is seeded with.
initial_Hu_norm == Fin(HuInit)

\* while_cond of interior_point_ddp
ip_cond(b) == b > BarrierTol

\* ----------------------------------------------------------------- state
VARIABLES
    pc,               \* position: ip_cond, ddp_cond, inner_cond, done
    initial_state,    \* interior_point_ddp argument
    ip_u,             \* continuation carry u (controls, as their trajectory)
    bp,               \* continuation carry bp
    t,                \* continuation carry t
    x,                \* ddp carry (x, u): the nominal trajectory
    iterations,       \* ddp carry iterations
    reg_param,        \* ddp carry reg_param
    reg_inc,          \* ddp carry reg_inc (binary exponent)
    Hu_norm,          \* ddp carry Hu_norm / Hamiltonian_norm
    cost,             \* while_body local cost
    derivatives,      \* while_body local derivatives
    temp,             \* inner carry (temp_x, temp_u)
    succ,             \* inner carry succesful_minimzation
    inner_Hu,         \* inner carry Hu_norm
    rp,               \* inner carry rp
    r_inc,            \* inner carry r_inc (binary exponent)
    inner_it_counter, \* inner carry inner_it_counter
    hist              \* history: what the calls were given and returned

vars == <<pc, initial_state, ip_u, bp, t, x, iterations, reg_param, reg_inc,
          Hu_norm, cost, derivatives, temp, succ, inner_Hu, rp, r_inc,
          inner_it_counter, hist>>

ipVars == <<ip_u, bp, t>>
ddpVars == <<x, iterations, reg_param, reg_inc, Hu_norm>>
bodyVars == <<cost, derivatives>>
innerVars == <<temp, succ, inner_Hu, rp, r_inc, inner_it_counter>>

\* hist.bps: barrier parameter of every ddp call so far; hist.sum: sum of
\* the counts the finished calls returned; hist.ret: the trajectory the
\* last finished call returned; hist.seedOK: the seed trajectory of the
\* current call is feasible; hist.conv: during the first outer iteration of
\* a call and at the test that follows it, whether the first backward pass
\* of the call had a residual below the tolerance and, if so, whether that
\* pass was accepted ("acc") or rejected ("rej"); "none" otherwise;
\* hist.rec: the passes are being recorded; hist.pass: while they are, and
\* until the inner loop ends, the gain ratio of the last pass, the pos_def
\* flag of each stage of its backward pass, and the values rp and r_inc had
\* when it began.
PassNone ==
    [g |-> RNaN, pos_def |-> [k \in Stages |-> FALSE], rp0 |-> RegOne,
     inc0 |-> RegIncInit]

HistInit ==
    [bps |-> <<>>, sum |-> 0, ret |-> Traj(0, "interior", 0),
     seedOK |-> FALSE, conv |-> "none", rec |-> FALSE, pass |-> PassNone]

\* The locals of a function that is not running hold no value: they are
\* kept at these fixed values outside its activation, except the
\* regularisation pair, which stays as the call left it until the next
\* call seeds its own.
NoTraj == Traj(0, "interior", 0)

DdpIdle ==
    /\ x' = NoTraj
    /\ iterations' = 0
    /\ UNCHANGED <<reg_param, reg_inc>>
    /\ Hu_norm' = Fin(HuInit)

BodyIdle ==
    /\ cost' = Fin(0)
    /\ derivatives' = [nan |-> FALSE, qu |-> [k \in Stages |-> 0]]
    /\ temp' = NoTraj
    /\ succ' = FALSE
    /\ inner_Hu' = Fin(0)
    /\ rp' = RegOne
    /\ r_inc' = RegIncInit
    /\ inner_it_counter' = 0

Init ==
    /\ pc = "ip_cond"
    /\ initial_state \in StateVals
    /\ ip_u \in TrajSet(initial_state)
    /\ bp = BarrierInit
    /\ t = 0
    /\ x = NoTraj
    /\ iterations = 0
    /\ reg_param = RegOne
    /\ reg_inc = RegIncInit
    /\ Hu_norm = Fin(HuInit)
    /\ cost = Fin(0)
    /\ derivatives = [nan |-> FALSE, qu |-> [k \in Stages |-> 0]]
    /\ temp = NoTraj
    /\ succ = FALSE
    /\ inner_Hu = Fin(0)
    /\ rp = RegOne
    /\ r_inc = RegIncInit
    /\ inner_it_counter = 0
    /\ hist = HistInit

\* interior_point_ddp: while_cond holds, while_body calls ddp, which rolls
\* the controls out and seeds its while_loop (lines 101-103, 176-183).
IPEnter ==
    /\ pc = "ip_cond"
    /\ ip_cond(bp)
    /\ \E cv \in CostVals :
         /\ x' = rollout(ip_u, initial_state, cv)
         /\ hist' = [hist EXCEPT !.bps = Append(@, bp),
                                 !.seedOK = check_feasibility(x'),
                                 !.conv = "none"]
    /\ iterations' = 0
    /\ reg_param' = RegOne
    /\ reg_inc' = RegIncInit
    /\ Hu_norm' = initial_Hu_norm
    /\ pc' = "ddp_cond"
    /\ UNCHANGED <<initial_state, ipVars, bodyVars, innerVars>>

\* interior_point_ddp: while_cond fails, the function returns (opt_u, N).
IPExit ==
    /\ pc = "ip_cond"
    /\ ~ip_cond(bp)
    /\ pc' = "done"
    /\ UNCHANGED <<initial_state, ipVars, ddpVars, bodyVars, innerVars, hist>>

\* ddp.while_body up to the inner while_loop (lines 106-112, 157).
OuterEnter ==
    /\ pc = "ddp_cond"
    /\ ~outer_exit_cond(Hu_norm, iterations)
    /\ cost' = total_cost(x)
    /\ derivatives' \in compute_derivatives(x)
    /\ temp' = x
    /\ succ' = FALSE
    /\ inner_Hu' = Fin(0)
    /\ rp' = inner_seed(reg_param, reg_inc).rp
    /\ r_inc' = inner_seed(reg_param, reg_inc).r_inc
    /\ inner_it_counter' = 0
    /\ pc' = "inner_cond"
    /\ hist' = [hist EXCEPT !.conv = "none"]
    /\ UNCHANGED <<initial_state, ipVars, ddpVars>>

\* The history after a pass of gain ratio g and stage flags pos_def.
InnerHist(g, pos_def) ==
    LET h == IF iterations = 0 /\ inner_it_counter = 0
             THEN [hist EXCEPT !.conv =
                      IF ~ExtLess(inner_Hu', Fin(HuTol)) THEN "none"
                      ELSE IF succ' THEN "acc" ELSE "rej"]
             ELSE hist
    IN  hist' = IF hist.rec
                THEN [h EXCEPT !.pass = [g |-> g, pos_def |-> pos_def,
                                         rp0 |-> rp, inc0 |-> r_inc]]
                ELSE h

\* The carry one while_inner_loop pass returns given the stage scalars s,
\* the candidate cand and the sign zs of a zero pred_reduction, with the
\* gain ratio and the stage flags the history keeps of it.
InnerPass(s, cand, zs) ==
    LET b == bwd_pass(s)
        actual_reduction == ExtSub(new_cost(cand), cost)
        g == ExtDiv(actual_reduction, b.pred_reduction, zs)
        ok == succesful_minimzation(g, b.feasible_bwd_pass)
    IN  [temp |-> cand,
         succ |-> ok,
         inner_Hu |-> Fin(MaxAbs(b.Hu)),
         rp |-> update_rp(ok, rp, g, reg_inc),
         r_inc |-> update_r_inc(ok, r_inc),
         g |-> IF hist.rec THEN g ELSE RNaN,
         pos_def |-> [k \in Stages |-> hist.rec /\ s[k].Quu > 0]]

\* The pass on a NaN bundle: every gain, Qu and eigenvalue is NaN, so the
\* candidate fails cons <= 0, pos_def is false and the gain ratio is NaN.
InnerPassNaN ==
    [temp |-> Traj(x.x0, "violating", 0),
     succ |-> succesful_minimzation(RNaN, FALSE),
     inner_Hu |-> NaN,
     rp |-> update_rp(FALSE, rp, RNaN, reg_inc),
     r_inc |-> update_r_inc(FALSE, r_inc),
     g |-> RNaN,
     pos_def |-> [k \in Stages |-> FALSE]]

\* The signs a floating point zero pred_reduction can carry.
ZeroSigns(p) == IF p = 0 THEN {-1, 1} ELSE {1}

\* The carries a pass on the current bundle can return.
InnerPasses ==
    IF derivatives.nan
    THEN {InnerPassNaN}
    ELSE UNION {UNION {{InnerPass(s, cand, zs) :
                          zs \in ZeroSigns(bwd_pass(s).pred_reduction)} :
                       cand \in nonlin_rollout(bwd_pass(s).ffgain, x)} :
                s \in {q \in [Stages -> StageQ] :
                          QuConsistent(derivatives.qu, q)}}

\* while_inner_loop (lines 114-145), entered when while_inner_cond holds.
InnerStep ==
    /\ pc = "inner_cond"
    /\ ~inner_exit_cond(succ, inner_it_counter)
    /\ \E p \in InnerPasses :
         /\ temp' = p.temp
         /\ succ' = p.succ
         /\ inner_Hu' = p.inner_Hu
         /\ rp' = p.rp
         /\ r_inc' = p.r_inc
         /\ InnerHist(p.g, p.pos_def)
    /\ inner_it_counter' = inner_it_counter + 1
    /\ UNCHANGED <<pc, initial_state, ipVars, ddpVars, bodyVars>>

\* while_inner_cond fails: the rest of ddp.while_body (lines 154-165).
InnerExit ==
    /\ pc = "inner_cond"
    /\ inner_exit_cond(succ, inner_it_counter)
    /\ x' = temp
    /\ Hu_norm' = inner_Hu
    /\ reg_param' = rp
    /\ reg_inc' = r_inc
    /\ iterations' = iterations + 1
    /\ pc' = "ddp_cond"
    /\ BodyIdle
    /\ hist' = [hist EXCEPT !.pass = PassNone]
    /\ UNCHANGED <<initial_state, ipVars>>

\* Variant: the continuation keeps the controls it was given.
next_u_Keep(u, opt_u) == u

\* _, u, newton_iterations = ddp(ocp, u, initial_state, bp)
next_u(u, opt_u) == opt_u

\* Variant: the barrier parameter is divided by 10.
next_bp_Ten(b) == b \div (2 * BarrierDiv)

\* bp / 5
next_bp(b) == b \div BarrierDiv

\* Variant: the count of the last call replaces the total.
accumulate_Last(total, newton_iterations) == newton_iterations

\* t + newton_iterations
accumulate(total, newton_iterations) == total + newton_iterations

\* ddp.while_cond fails: ddp returns, and interior_point_ddp.while_body
\* finishes (lines 186, 194-198).
DdpReturn ==
    /\ pc = "ddp_cond"
    /\ outer_exit_cond(Hu_norm, iterations)
    /\ ip_u' = next_u(ip_u, x)
    /\ bp' = next_bp(bp)
    /\ t' = accumulate(t, iterations)
    /\ hist' = [hist EXCEPT !.sum = @ + iterations, !.ret = x,
                            !.conv = "none"]
    /\ pc' = "ip_cond"
    /\ DdpIdle
    /\ UNCHANGED <<initial_state, bodyVars, innerVars>>

Next ==
    \/ IPEnter
    \/ IPExit
    \/ OuterEnter
    \/ InnerStep
    \/ InnerExit
    \/ DdpReturn

Spec == Init /\ [][Next]_vars

TypeOK ==
    /\ pc \in {"ip_cond", "ddp_cond", "inner_cond", "done"}

\* The regularisation states the first outer iteration of a call can leave
\* behind (with the budget of 500 of the source, whose first inner loop
\* multiplies rp by 2 on each of its up to 501 rejections):
\*   (1, 2)            first pass accepted with gain ratio 1/2;
\*   (1/3, 2)          first pass accepted with gain ratio 1;
\*   (2^53, 2)         53 rejections, then accepted with gain ratio 1/2;
\*   (1e16 / 3, 2)     54 or more rejections, then accepted with ratio 1;
\*   (1e16, 2 * 2^501) 501 rejections, budget exhausted.
RegSeeds ==
    {[r |-> RegOne, inc |-> RegIncInit],
     [r |-> [RegOne EXCEPT !.e3 = -1], inc |-> RegIncInit],
     [r |-> [RegOne EXCEPT !.e2 = 53], inc |-> RegIncInit],
     [r |-> [RegMax EXCEPT !.e3 = -1], inc |-> RegIncInit],
     [r |-> RegMax, inc |-> RegIncInit + 501]}

\* The first call of the continuation at the test that follows its first
\* outer iteration, the residual not yet below the tolerance.
RegInit ==
    /\ pc = "ddp_cond"
    /\ initial_state \in StateVals
    /\ ip_u \in TrajSet(initial_state)
    /\ bp = BarrierInit
    /\ t = 0
    /\ x \in TrajSet(initial_state)
    /\ iterations = 1
    /\ \E sd \in RegSeeds : reg_param = sd.r /\ reg_inc = sd.inc
    /\ Hu_norm = Fin(HuTol)
    /\ cost = Fin(0)
    /\ derivatives = [nan |-> FALSE, qu |-> [k \in Stages |-> 0]]
    /\ temp = NoTraj
    /\ succ = FALSE
    /\ inner_Hu = Fin(0)
    /\ rp = RegOne
    /\ r_inc = RegIncInit
    /\ inner_it_counter = 0
    /\ hist = [HistInit EXCEPT !.bps = <<BarrierInit>>,
                               !.seedOK = check_feasibility(ip_u)]

RegSpec == RegInit /\ [][Next]_vars

\* interior_point_ddp before its last continuation step (bp = 0.00016), the
\* four calls before it having returned one iteration each and any
\* controls, the last of them having left one of the regularisation pairs
\* of RegSeeds; the passes of the last call are recorded.
PassInit ==
    /\ pc = "ip_cond"
    /\ initial_state \in StateVals
    /\ ip_u \in TrajSet(initial_state)
    /\ bp = 1600
    /\ t = 4
    /\ x = NoTraj
    /\ iterations = 0
    /\ \E sd \in RegSeeds : reg_param = sd.r /\ reg_inc = sd.inc
    /\ Hu_norm = Fin(HuInit)
    /\ cost = Fin(0)
    /\ derivatives = [nan |-> FALSE, qu |-> [k \in Stages |-> 0]]
    /\ temp = NoTraj
    /\ succ = FALSE
    /\ inner_Hu = Fin(0)
    /\ rp = RegOne
    /\ r_inc = RegIncInit
    /\ inner_it_counter = 0
    /\ hist = [HistInit EXCEPT !.bps = <<1000000, 200000, 40000, 8000>>,
                               !.sum = t, !.ret = ip_u, !.rec = TRUE]

PassSpec == PassInit /\ [][Next]_vars

\* ================================================================ claims

\* C1: provided the seed trajectory of a Newton loop call is feasible, the
\* trajectory the call returns satisfies the constraints at every stage.
C1_ReturnedFeasible ==
    (pc = "ip_cond" /\ Len(hist.bps) > 0 /\ hist.seedOK)
        => check_feasibility(hist.ret)

\* C2: an accepted inner-loop iteration has a candidate whose total cost is
\* strictly lower than the cost of the nominal trajectory it replaces.
C2_AcceptedDescends ==
    (pc = "inner_cond" /\ succ) => ExtLess(total_cost(temp), cost)

\* An accepted pass has just ended the inner loop's iteration.
C2_Witness == pc = "inner_cond" /\ succ /\ IsFinite(cost)

\* C4: the Newton loop is called at the barrier values 0.1, 0.02, 0.004,
\* 0.0008, 0.00016 in this order, whatever it returns, and the continuation
\* ends after exactly these five calls.
BarrierSchedule == <<1000000, 200000, 40000, 8000, 1600>>

C4_BarrierSchedule ==
    /\ Len(hist.bps) <= Len(BarrierSchedule)
    /\ \A i \in 1 .. Len(hist.bps) : hist.bps[i] = BarrierSchedule[i]
    /\ pc = "done" => hist.bps = BarrierSchedule

\* The continuation has returned after a call that ran out of its budget.
C4_Witness == pc = "done" /\ ~check_feasibility(ip_u)

\* C7: the count interior_point_ddp returns is the sum of the counts the
\* Newton loop calls returned, and its controls are those of the last call.
C7_CumulativeCount ==
    /\ pc = "ip_cond" => t = hist.sum
    /\ pc = "done" => t = hist.sum /\ ip_u = hist.ret

\* The continuation has returned and the calls did not all return the
\* same count.
C7_Witness == pc = "done" /\ t > Len(hist.bps) /\ t < 2 * Len(hist.bps)

\* C8: a pass whose candidate violates a constraint while the nominal cost
\* is finite is not accepted.
C8_InfeasibleRejected ==
    (/\ pc = "inner_cond"
     /\ inner_it_counter > 0
     /\ ~check_feasibility(temp)
     /\ IsFinite(cost)) => ~succ

\* A pass has produced an infeasible candidate from a nominal trajectory of
\* finite cost.
C8_Witness ==
    /\ pc = "inner_cond"
    /\ inner_it_counter > 0
    /\ ~check_feasibility(temp)
    /\ IsFinite(cost)

\* C9: one inner loop never executes more passes than its budget.
C9_InnerBudget == inner_it_counter <= InnerItCap

\* C10: the count of outer iterations of one Newton loop call never exceeds
\* its budget.
C10_OuterBudget == iterations <= OuterItCap

\* C3: after every update, and wherever it is carried, the regularisation
\* scalar lies in [1e-16, 1e16].
InRange(r) ==
    /\ RegLog(r) >= 100000 * RegMinExp
    /\ RegLog(r) <= 100000 * RegMaxExp

StepsOuter == InnerItCap + 3
StepsCall == (OuterItCap + 1) * StepsOuter + 2

StepsLeft ==
    LET calls == Len(BarrierSchedule) - Len(hist.bps)
        outer == OuterItCap + 1 - iterations
        inner == InnerItCap + 1 - inner_it_counter
    IN  IF pc = "done" THEN 0
        ELSE IF pc = "ip_cond" THEN calls * StepsCall + 1
        ELSE IF pc = "ddp_cond"
             THEN calls * StepsCall + outer * StepsOuter + 2
        ELSE calls * StepsCall + (outer - 1) * StepsOuter + inner + 3

\* A pass can be taken on the current bundle.
PassExists ==
    \/ derivatives.nan
    \/ \E s \in [Stages -> StageQ] :
          /\ QuConsistent(derivatives.qu, s)
          /\ nonlin_rollout(bwd_pass(s).ffgain, x) # {}

\* C5: the inner loop, the Newton loop and the continuation each stop after
\* a bounded number of iterations (every step lowers StepsLeft, which is
\* never negative), no position other than the four of the program is
\* reached, and a pass is always possible where the inner loop asks for one.
C5_Terminates ==
    /\ [][StepsLeft' < StepsLeft]_vars
    /\ [](/\ StepsLeft >= 0
          /\ inner_it_counter <= InnerItCap + 1
          /\ iterations <= OuterItCap + 1
          /\ Len(hist.bps) <= Len(BarrierSchedule)
          /\ pc \in {"ip_cond", "ddp_cond", "inner_cond", "done"}
          /\ (pc = "inner_cond" => PassExists))

\* The continuation has returned after every Newton loop call used up its
\* whole budget.
C5_Witness ==
    /\ pc = "done"
    /\ t = Len(BarrierSchedule) * (OuterItCap + 1)

\* C6 as stated: a call whose first backward pass has a residual below the
\* tolerance ends after its first outer iteration.
C6_ConvergedSeedOneIteration ==
    (pc = "ddp_cond" /\ iterations = 1 /\ hist.conv # "none")
        => outer_exit_cond(Hu_norm, iterations)

\* C6 amended: a call whose first backward pass has a residual below the
\* tolerance and is accepted ends after its first outer iteration.
C6_AcceptedSeedOneIteration ==
    (pc = "ddp_cond" /\ iterations = 1 /\ hist.conv = "acc")
        => outer_exit_cond(Hu_norm, iterations)

\* The first pass of a call had a residual below the tolerance and was
\* accepted, and the first outer iteration is over.
C6_Witness == pc = "ddp_cond" /\ iterations = 1 /\ hist.conv = "acc"

\* C11: within one inner loop the j-th consecutive rejection multiplies the
\* regularisation by the growth multiplier of that moment, (multiplier at
\* loop entry) * 2^(j-1), and doubles the multiplier: after j rejections the
\* regularisation is the entry value times multiplier^j * 2^(j(j-1)/2),
\* clipped, and the multiplier is the entry value times 2^j.
C11_RejectionGrowth ==
    (pc = "inner_cond" /\ ~succ /\ inner_it_counter > 0) =>
        /\ rp = ClipReg(RegGrow(reg_param,
                    inner_it_counter * reg_inc
                      + (inner_it_counter * (inner_it_counter - 1)) \div 2))
        /\ r_inc = reg_inc + inner_it_counter

\* gain_ratio >= 1/2
HalfOrMore(g) == g.k = "pinf" \/ (g.k = "fin" /\ 2 * g.n >= g.d)

\* C12 as stated: an accepted pass replaces the regularisation by the
\* clipped product with max(1/3, 1 - (2 gain_ratio - 1)^3), sets the growth
\* multiplier to 2, and never leaves the regularisation larger than it was.
C12_AcceptedNeverGrows ==
    (pc = "inner_cond" /\ succ /\ hist.rec) =>
        /\ rp = ClipReg(RegShrink(hist.pass.rp0, hist.pass.g))
        /\ r_inc = RegIncInit
        /\ RegLog(rp) <= RegLog(hist.pass.rp0)

\* C12 amended: an accepted pass replaces the regularisation by the clipped
\* product with max(1/3, 1 - (2 gain_ratio - 1)^3), which is never less than
\* a third of the old value, and sets the growth multiplier to 2; the
\* regularisation is not larger than before when the gain ratio is at least
\* 1/2 and not smaller than before when it is below 1/2.
C12_AcceptedShrinksFromHalf ==
    (pc = "inner_cond" /\ succ /\ hist.rec) =>
        /\ rp = ClipReg(RegShrink(hist.pass.rp0, hist.pass.g))
        /\ r_inc = RegIncInit
        /\ RegLog(rp) >= RegLog(hist.pass.rp0) - 47712
        /\ HalfOrMore(hist.pass.g) => RegLog(rp) <= RegLog(hist.pass.rp0)
        /\ ~HalfOrMore(hist.pass.g) => RegLog(rp) >= RegLog(hist.pass.rp0)

\* A pass that followed a rejection was accepted with a gain ratio of at
\* least 1/2 and has shrunk the regularisation.
C12_Witness ==
    /\ pc = "inner_cond"
    /\ succ
    /\ hist.rec
    /\ inner_it_counter > 1
    /\ HalfOrMore(hist.pass.g)
    /\ RegLog(rp) < RegLog(hist.pass.rp0)

\* C13: a pass is accepted if and only if its gain ratio is > 0 and the
\* regularised Quu was positive definite at every stage of its backward
\* pass; one stage that is not makes the pass rejected whatever the ratio.
C13_AcceptanceRule ==
    (pc = "inner_cond" /\ inner_it_counter > 0 /\ hist.rec) =>
        (succ <=> /\ RatPos(hist.pass.g)
                  /\ \A k \in Stages : hist.pass.pos_def[k])

\* A pass with a positive gain ratio and exactly one stage that was not
\* positive definite has been rejected.
C13_Witness ==
    /\ pc = "inner_cond"
    /\ inner_it_counter > 0
    /\ hist.rec
    /\ RatPos(hist.pass.g)
    /\ Cardinality({k \in Stages : ~hist.pass.pos_def[k]}) = 1
    /\ ~succ

\* C14: every Newton loop call starts with regularisation 1.0 and growth
\* multiplier 2.0 whatever the call before it left; inside a call the pair
\* changes only where an inner loop hands its own pair back, and the next
\* inner loop starts with exactly that pair.
C14_RegLifetime ==
    /\ []((pc = "ddp_cond" /\ iterations = 0)
            => (reg_param = RegOne /\ reg_inc = RegIncInit))
    /\ [][/\ (pc = "ip_cond" /\ pc' = "ddp_cond")
               => (reg_param' = RegOne /\ reg_inc' = RegIncInit)
          /\ (pc = "ddp_cond" /\ pc' = "inner_cond")
               => /\ rp' = reg_param
                  /\ r_inc' = reg_inc
                  /\ UNCHANGED <<reg_param, reg_inc>>
          /\ (pc = "inner_cond" /\ pc' = "inner_cond")
               => UNCHANGED <<reg_param, reg_inc>>
          /\ (pc = "inner_cond" /\ pc' = "ddp_cond")
               => (reg_param' = rp /\ reg_inc' = r_inc)]_vars

\* The inner loop of a second outer iteration starts with a pair that
\* differs from the initial one in both components.
C14_Witness ==
    /\ pc = "inner_cond"
    /\ iterations = 1
    /\ inner_it_counter = 0
    /\ rp = reg_param
    /\ r_inc = reg_inc
    /\ rp # RegOne
    /\ r_inc # RegIncInit

\* C15: while an inner loop runs, the nominal trajectory, its cost and its
\* derivative bundle do not change and are those of one another (the cost
\* and the bundle are finite exactly when the nominal trajectory is strictly
\* inside the constraints), the residual of every backward pass is that of
\* the bundle, and entering the inner loop recomputes cost and bundle from
\* the nominal trajectory the outer iteration received.
C15_NoStaleDerivatives ==
    /\ [](pc = "inner_cond" =>
            /\ cost = total_cost(x)
            /\ derivatives.nan <=> x.st # "interior"
            /\ IsFinite(cost) <=> ~derivatives.nan
            /\ inner_it_counter = 0 => temp = x
            /\ (inner_it_counter > 0 /\ ~derivatives.nan) =>
                  /\ IsFinite(inner_Hu)
                  /\ inner_Hu.v >= MaxAbs(derivatives.qu)
                  /\ derivatives.qu[2] = 0 =>
                        inner_Hu.v = MaxAbs(derivatives.qu))
    /\ [][/\ (pc = "inner_cond" /\ pc' = "inner_cond")
               => UNCHANGED <<x, cost, derivatives>>
          /\ (pc = "ddp_cond" /\ pc' = "inner_cond")
               => /\ x' = x
                  /\ cost' = total_cost(x)
                  /\ derivatives' \in compute_derivatives(x)
          /\ (pc = "inner_cond" /\ pc' = "ddp_cond") => x' = temp]_vars

\* A second pass has run on the nominal trajectory of a second outer
\* iteration after a first pass whose candidate was rejected, and its own
\* candidate differs from the nominal trajectory.
C15_Witness ==
    /\ pc = "inner_cond"
    /\ iterations = 1
    /\ inner_it_counter = 2
    /\ temp # x
    /\ ~derivatives.nan

\* C16: the trajectory an outer iteration adopts when its inner loop ends,
\* by acceptance or by exhausting its budget, has a total cost no higher
\* than the nominal trajectory the iteration started from.
C16_BestAvailable ==
    (/\ pc = "inner_cond"
     /\ inner_exit_cond(succ, inner_it_counter)
     /\ IsFinite(cost)) =>
        /\ IsFinite(total_cost(temp))
        /\ total_cost(temp).v <= cost.v

\* C17: the continuation carry of the controls changes only where a Newton
\* loop call returns, and then to exactly the controls the call returned;
\* every call is seeded with the roll-out of that carry (the caller's
\* controls for the first call) from the caller's initial state, which
\* never changes.
C17_WarmStart ==
    /\ []((pc = "ip_cond" /\ Len(hist.bps) > 0) => ip_u = hist.ret)
    /\ []((pc = "ddp_cond" /\ iterations = 0)
            => (x.st = ip_u.st /\ x.x0 = initial_state))
    /\ [][/\ initial_state' = initial_state
          /\ (pc = "ddp_cond" /\ pc' = "ip_cond") => ip_u' = x
          /\ ~(pc = "ddp_cond" /\ pc' = "ip_cond") => ip_u' = ip_u
          /\ (pc = "ip_cond" /\ pc' = "ddp_cond")
               => x' \in {rollout(ip_u, initial_state, cv) :
                             cv \in CostVals}]_vars

\* The first call, seeded with feasible controls of the caller, has
\* returned controls that violate a constraint, and the carry holds them.
C17_Witness ==
    /\ pc = "ip_cond"
    /\ Len(hist.bps) = 1
    /\ hist.seedOK
    /\ ~check_feasibility(ip_u)
    /\ ip_u = hist.ret

\* C18: every candidate starts at state 0 of the nominal trajectory it was
\* rolled out from, and every nominal, candidate and returned trajectory
\* starts at the caller's initial state.
C18_FixedInitialState ==
    /\ pc \in {"ddp_cond", "inner_cond"} => x.x0 = initial_state
    /\ pc = "inner_cond" => (temp.x0 = x.x0 /\ temp.x0 = initial_state)
    /\ Len(hist.bps) > 0 /\ pc \in {"ip_cond", "done"}
         => (hist.ret.x0 = initial_state /\ ip_u.x0 = initial_state)

\* In the second continuation step a pass has produced a candidate that
\* differs from the nominal trajectory and starts at the initial state.
C18_Witness ==
    /\ pc = "inner_cond"
    /\ Len(hist.bps) = 2
    /\ inner_it_counter = 1
    /\ temp # x
    /\ temp.x0 = initial_state

\* C19: a Newton loop call returns only after at least one outer iteration
\* and an inner loop ends only after at least one pass, so every call
\* returns a count >= 1 and the cumulative count is at least the number of
\* calls made, 5 when interior_point_ddp returns.
C19_AtLeastOneIteration ==
    /\ (pc = "ddp_cond" /\ outer_exit_cond(Hu_norm, iterations))
         => iterations >= 1
    /\ (pc = "inner_cond" /\ inner_exit_cond(succ, inner_it_counter))
         => inner_it_counter >= 1
    /\ pc = "ip_cond" => t >= Len(hist.bps)
    /\ pc = "done" => t >= Len(BarrierSchedule)

\* A call whose seed trajectory is stationary (residual 0 in its first
\* outer iteration) is about to return the count 1.
C19_Witness ==
    /\ pc = "ddp_cond"
    /\ iterations = 1
    /\ Hu_norm = Fin(0)
    /\ outer_exit_cond(Hu_norm, iterations)

====
